---- MODULE Spec2Model ----
(***************************************************************************)
(* Solid/StochasticHillClimb.py: the StochasticHillClimb engine.           *)
(*                                                                         *)
(* `self` is one engine object: its attributes (class attributes of lines  *)
(* 13-23, instance attributes of __init__) together with the frame of the  *)
(* run() call in progress (pc, n, k, i, neighbor) and what that call       *)
(* produced (status, result, error).  `fresh` is a second engine, built    *)
(* from the same constructor arguments immediately before every run() and  *)
(* driven by the same Problem Model results and random draws; it is the    *)
(* reference a re-run is compared with.                                    *)
(*                                                                         *)
(* Python values: None is <<>>, a reference to a state s is <<s>>, the     *)
(* float -inf is NegInf, a pair (a, b) is <<a, b>>.  Object identity is    *)
(* kept where it matters: best_is_current says that best_state and         *)
(* current_state refer to one object, current_is_callers and               *)
(* best_is_callers that the attribute refers to an object of the caller    *)
(* (a seed point or the initial state).                                    *)
(***************************************************************************)
EXTENDS Integers, Sequences, FiniteSets, TLC

VARIABLES self, fresh, args, runs, seen_max, prev_best, before, paths,
          n_random, n_neighbor, n_initial, verbose, printed, seed_best

vars == <<self, fresh, args, runs, seen_max, prev_best, before, paths,
          n_random, n_neighbor, n_initial, verbose, printed, seed_best>>

----------------------------------------------------------------------------
(* Bounds of the model *)

MaxSteps == 3
MaxSamples == 2
MaxPoints == 2
MaxRuns == 2

(* max_steps of the long runs, which reach the progress reports *)
MaxLongSteps == 201

(* line 155: a progress report every 100 steps *)
ProgressEvery == 100

(* the states of the Problem Models, the temperatures and the targets tried *)
States == {-1, 0, 1}
Temps == {-1, 0, 1}
Targets == {-1, 0}

(* float('-inf'): below every objective value of the model *)
NegInf == -1000000

(* math.exp(x) raises OverflowError for x > 709.78...; in hundredths *)
ExpOverflowHundredths == 70978

None == <<>>
Some(v) == <<v>>

(* the Problem Models (subclasses) the engine is run with *)
Models == {"negsq", "shifted", "scaled"}

----------------------------------------------------------------------------
(* The Problem Model: the three abstract methods *)

(* _objective(state) *)
_objective(e, s) ==
    CASE e.model = "negsq"   -> -(s * s)
      [] e.model = "shifted" -> s - 2
      [] e.model = "scaled"  -> 400 * s

(* _neighbor(): a member of the neighbourhood of self.current_state *)
_neighbor(e) == States

(* _random(): a random state *)
_random(e) == States

----------------------------------------------------------------------------
(* Constructor arguments: a value with its Python type *)

PyInt(v) == [ty |-> "int", v |-> v]
PyFloat(v) == [ty |-> "float", v |-> v]
PyStr == [ty |-> "str", v |-> 0]
NoArg == [ty |-> "none", v |-> 0]

IsInt(a) == a.ty = "int"
IsNumeric(a) == a.ty \in {"int", "float"}

SeqsUpTo(S, m) == UNION {[1..len -> S] : len \in 0..m}

Args ==
    [initial_state : States,
     temp : {PyInt(t) : t \in Temps} \cup {PyStr},
     max_steps : {PyInt(m) : m \in 0..MaxSteps} \cup {PyFloat(1), PyStr},
     max_objective : {NoArg, PyStr} \cup {PyInt(t) : t \in Targets},
     n_samples : 0..MaxSamples,
     points_to_evaluate : SeqsUpTo(States, MaxPoints),
     model : Models]

(* the constructor arguments of the long runs *)
LongArgs ==
    [initial_state : {0},
     temp : {PyInt(1)},
     max_steps : {PyInt(MaxLongSteps)},
     max_objective : {NoArg},
     n_samples : {0, 2},
     points_to_evaluate : {<<>>, <<1>>},
     model : {"negsq"}]

(* class attributes, lines 13-23, and no call of run() in progress *)
ClassDefaults ==
    [initial_state |-> None, current_state |-> None, best_state |-> None,
     cur_steps |-> 0, max_steps |-> None, best_objective |-> NegInf,
     max_objective |-> None, temp |-> None,
     current_objective |-> None,
     best_is_current |-> FALSE, current_is_callers |-> FALSE,
     best_is_callers |-> FALSE,
     pc |-> "new", n |-> 0, k |-> 0, i |-> 0, neighbor |-> None,
     status |-> "none", result |-> None, error |-> "none"]

Raise(e, err) == [e EXCEPT !.pc = IF e.pc = "new" THEN "failed" ELSE "raised",
                           !.error = err]

(* __init__ *)
Construct(a) ==
    LET e0 == [f \in DOMAIN ClassDefaults \cup {"n_samples", "points_to_evaluate", "model"} |->
                 CASE f = "initial_state" -> Some(a.initial_state)
                   [] f = "n_samples" -> a.n_samples
                   [] f = "points_to_evaluate" -> a.points_to_evaluate
                   [] f = "model" -> a.model
                   [] OTHER -> ClassDefaults[f]]
    IN  IF ~(IsInt(a.max_steps) /\ a.max_steps.v > 0)
        THEN Raise(e0, "ValueError: Max steps must be a positive integer")
        ELSE
        LET e1 == [e0 EXCEPT !.max_steps = a.max_steps.v] IN
        IF a.max_objective.ty # "none" /\ ~IsNumeric(a.max_objective)
        THEN Raise(e1, "ValueError: Maximum objective must be a numeric type")
        ELSE
        LET e2 == IF a.max_objective.ty # "none"
                  THEN [e1 EXCEPT !.max_objective = Some(a.max_objective.v)]
                  ELSE e1 IN
        IF ~IsNumeric(a.temp)
        THEN Raise(e2, "ValueError: Temperature must be a numeric type")
        ELSE [e2 EXCEPT !.temp = a.temp.v, !.pc = "idle"]

----------------------------------------------------------------------------
(* run() and its helpers, as functions of the engine *)

(* a reset that leaves the best objective of the previous run in place *)
ClearKeepsBestObjective(e) ==
    [e EXCEPT !.cur_steps = 0, !.current_state = None, !.best_state = None,
              !.best_is_current = FALSE, !.current_is_callers = FALSE,
              !.best_is_callers = FALSE]

(* _clear *)
_clear(e) ==
    [e EXCEPT !.cur_steps = 0, !.current_state = None, !.best_state = None,
              !.best_objective = NegInf,
              !.best_is_current = FALSE, !.current_is_callers = FALSE,
              !.best_is_callers = FALSE]

(* lines 126-130: reset, current_objective, n = 0 *)
Start(e) ==
    LET c == _clear(e) IN
    [c EXCEPT !.current_objective = c.best_objective,
              !.n = 0, !.k = 0, !.i = 0, !.neighbor = None,
              !.status = "none", !.result = None, !.error = "none",
              !.pc = "seeding"]

(* the sampling branch tested before the seed-points branch *)
SeedPathSamplesFirst(e) ==
    IF e.n_samples > 1 THEN "samples"
    ELSE IF Len(e.points_to_evaluate) > 0 THEN "points"
    ELSE "initial"

(* which branch of the if / elif / else of lines 131-149 is taken *)
SeedPath(e) ==
    IF Len(e.points_to_evaluate) > 0 THEN "points"
    ELSE IF e.n_samples > 1 THEN "samples"
    ELSE "initial"

(* a seed adopted as best without comparing it *)
ImprovesAlways(cand, best) == TRUE

(* the test of lines 135 and 143 *)
Improves(cand, best) == cand > best

(* lines 133-137 and 141-145: evaluate s as a seed; best_state is assigned
   the object current_state refers to, not a copy of it *)
SeedEval(e, s) ==
    LET obj == _objective(e, s) IN
    IF Improves(obj, e.best_objective)
    THEN [e EXCEPT !.current_state = Some(s), !.current_objective = obj,
                   !.best_state = Some(s), !.best_objective = obj,
                   !.best_is_current = TRUE]
    ELSE [e EXCEPT !.current_state = Some(s), !.current_objective = obj,
                   !.best_is_current = FALSE]

(* one iteration of the for loop of lines 132-137 *)
SeedPoint(e) ==
    LET d == SeedEval(e, e.points_to_evaluate[e.k + 1]) IN
    [d EXCEPT !.k = e.k + 1,
              !.current_is_callers = TRUE,
              !.best_is_callers = IF d.best_is_current THEN TRUE ELSE e.best_is_callers,
              !.pc = IF e.k + 1 = Len(e.points_to_evaluate) THEN "climbing" ELSE "seeding"]

(* one iteration of the while loop of lines 140-146 *)
SeedSample(e, s) ==
    LET d == SeedEval(e, s) IN
    [d EXCEPT !.n = e.n + 1,
              !.current_is_callers = FALSE,
              !.best_is_callers = IF d.best_is_current THEN FALSE ELSE e.best_is_callers,
              !.pc = IF e.n + 1 < e.n_samples THEN "seeding" ELSE "climbing"]

(* lines 148-149 *)
SeedInitial(e) ==
    [e EXCEPT !.current_state = e.initial_state,
              !.current_is_callers = TRUE,
              !.best_objective = _objective(e, e.initial_state[1]),
              !.pc = "climbing"]

(* the best objective always compared as 0 *)
Or0AlwaysZero(v) == 0

(* a fallback to 0 for every best objective that is not positive *)
Or0NegativeIsZero(v) == IF v <= 0 THEN 0 ELSE v

(* x or 0 *)
Or0(v) == IF v = 0 THEN 0 ELSE v

(* math.exp(num / t) raises OverflowError *)
ExpOverflows(num, t) ==
    IF t > 0 THEN 100 * num > ExpOverflowHundredths * t
             ELSE 100 * num < ExpOverflowHundredths * t

(* the acceptance test without the except clause of lines 115-116 *)
AcceptNeighborNoExcept(e, nb, draw) ==
    LET num == -(_objective(e, e.current_state[1]) - _objective(e, nb)) IN
    IF e.temp = 0 THEN "ZeroDivisionError"
    ELSE IF ExpOverflows(num, e.temp) THEN "OverflowError"
    ELSE IF (e.temp > 0 /\ num >= 0) \/ (e.temp < 0 /\ num <= 0) THEN "True"
    ELSE IF draw = "low" THEN "True" ELSE "False"

(* _accept_neighbor(neighbor): "True", "False" or the exception raised.
   draw is whether random() came out at most p ("low") or above it ("high") *)
_accept_neighbor(e, nb, draw) ==
    LET num == -(_objective(e, e.current_state[1]) - _objective(e, nb)) IN
    IF e.temp = 0 THEN "ZeroDivisionError"
    ELSE IF ExpOverflows(num, e.temp) THEN "True"
    ELSE IF (e.temp > 0 /\ num >= 0) \/ (e.temp < 0 /\ num <= 0) THEN "True"
    ELSE IF draw = "low" THEN "True" ELSE "False"

(* deepcopy(state): a new object with the same value *)
deepcopy(ref) == ref

(* range(self.max_steps - self.n_samples - len(self.points_to_evaluate)) *)
Remaining(e) == e.max_steps - e.n_samples - Len(e.points_to_evaluate)

(* the test of line 167 *)
TargetReached(e) ==
    e.max_objective # None /\ Or0(e.best_objective) > e.max_objective[1]

(* one iteration of the for loop of lines 153-169 *)
Climb(e, nb, draw) ==
    LET e1 == [e EXCEPT !.cur_steps = e.cur_steps + 1, !.neighbor = Some(nb)]
        acc == _accept_neighbor(e1, nb, draw)
    IN  IF acc \notin {"True", "False"} THEN Raise(e1, acc)
        ELSE
        LET e2 == IF acc = "True"
                  THEN [e1 EXCEPT !.current_state = Some(nb),
                                  !.current_is_callers = FALSE,
                                  !.best_is_current = FALSE]
                  ELSE e1
            obj == _objective(e2, e2.current_state[1])
            e3 == IF obj > Or0(e2.best_objective)
                  THEN [e2 EXCEPT !.best_objective = obj,
                                  !.best_state = deepcopy(e2.current_state),
                                  !.best_is_current = FALSE,
                                  !.best_is_callers = FALSE]
                  ELSE e2
        IN  IF TargetReached(e3)
            THEN [e3 EXCEPT !.pc = "done", !.status = "target",
                            !.result = <<e3.best_state, e3.best_objective>>]
            ELSE [e3 EXCEPT !.i = e.i + 1]

(* a report one iteration late: i tested in place of i + 1 *)
ShouldPrintOffByOne(e, v) == (e.i % ProgressEvery = 0) /\ v

(* the test of line 155 *)
ShouldPrint(e, v) == ((e.i + 1) % ProgressEvery = 0) /\ v

(* __str__: the values formatted into the report *)
__str__(e) ==
    [cur_steps |-> e.cur_steps, best_objective |-> e.best_objective,
     best_state |-> e.best_state]

(* a return that tests the target once more after the loop *)
ReturnMaxStepsTestsTarget(e) ==
    [e EXCEPT !.pc = "done",
              !.status = IF e.max_objective # None
                            /\ Or0(e.best_objective) > e.max_objective[1]
                         THEN "target" ELSE "budget",
              !.result = <<e.best_state, e.best_objective>>]

(* lines 170-171 *)
ReturnMaxSteps(e) ==
    [e EXCEPT !.pc = "done", !.status = "budget",
              !.result = <<e.best_state, e.best_objective>>]

----------------------------------------------------------------------------
(* The state machine *)

Max2(a, b) == IF a >= b THEN a ELSE b

Init ==
    /\ self = ClassDefaults
    /\ fresh = ClassDefaults
    /\ args = None
    /\ runs = 0
    /\ seen_max = NegInf
    /\ prev_best = NegInf
    /\ before = None
    /\ paths = {}
    /\ n_random = 0
    /\ n_neighbor = 0
    /\ n_initial = 0
    /\ verbose = TRUE
    /\ printed = <<>>
    /\ seed_best = NegInf

(* the reference engine takes the step the engine takes *)
Follow(next_fresh) ==
    fresh' = IF fresh.pc = self.pc THEN next_fresh ELSE fresh

(* StochasticHillClimb(initial_state, temp, max_steps, ...) *)
DoConstruct ==
    /\ self.pc = "new"
    /\ \E a \in Args :
         /\ self' = Construct(a)
         /\ fresh' = Construct(a)
         /\ args' = a
    /\ UNCHANGED <<runs, seen_max, prev_best, before, paths,
                   n_random, n_neighbor, n_initial, verbose, printed, seed_best>>

(* the same call with the arguments of a long run *)
DoConstructLong ==
    /\ self.pc = "new"
    /\ \E a \in LongArgs :
         /\ self' = Construct(a)
         /\ fresh' = Construct(a)
         /\ args' = a
    /\ UNCHANGED <<runs, seen_max, prev_best, before, paths,
                   n_random, n_neighbor, n_initial, verbose, printed, seed_best>>

(* run() is called: lines 126-130 *)
Run ==
    /\ self.pc \in {"idle", "done", "raised"}
    /\ runs < MaxRuns
    /\ self' = Start(self)
    /\ fresh' = Start(Construct(args))
    /\ runs' = runs + 1
    /\ seen_max' = NegInf
    /\ prev_best' = NegInf
    /\ before' = None
    /\ paths' = {}
    /\ n_random' = 0
    /\ n_neighbor' = 0
    /\ n_initial' = 0
    /\ verbose' \in BOOLEAN
    /\ printed' = <<>>
    /\ seed_best' = NegInf
    /\ UNCHANGED args

(* lines 132-137, one point *)
DoSeedPoint ==
    /\ self.pc = "seeding"
    /\ SeedPath(self) = "points"
    /\ self' = SeedPoint(self)
    /\ Follow(SeedPoint(fresh))
    /\ seen_max' = Max2(seen_max, _objective(self, self.points_to_evaluate[self.k + 1]))
    /\ prev_best' = self.best_objective
    /\ seed_best' = SeedPoint(self).best_objective
    /\ paths' = paths \cup {"points"}
    /\ UNCHANGED <<args, runs, before, n_random, n_neighbor, n_initial, verbose, printed>>

(* lines 140-146, one sample *)
DoSeedSample ==
    /\ self.pc = "seeding"
    /\ SeedPath(self) = "samples"
    /\ \E s \in _random(self) :
         /\ self' = SeedSample(self, s)
         /\ Follow(SeedSample(fresh, s))
         /\ seen_max' = Max2(seen_max, _objective(self, s))
         /\ seed_best' = SeedSample(self, s).best_objective
    /\ prev_best' = self.best_objective
    /\ paths' = paths \cup {"samples"}
    /\ n_random' = n_random + 1
    /\ UNCHANGED <<args, runs, before, n_neighbor, n_initial, verbose, printed>>

(* lines 148-149 *)
DoSeedInitial ==
    /\ self.pc = "seeding"
    /\ SeedPath(self) = "initial"
    /\ self' = SeedInitial(self)
    /\ Follow(SeedInitial(fresh))
    /\ seen_max' = Max2(seen_max, _objective(self, self.initial_state[1]))
    /\ prev_best' = self.best_objective
    /\ seed_best' = SeedInitial(self).best_objective
    /\ paths' = paths \cup {"initial"}
    /\ n_initial' = n_initial + 1
    /\ UNCHANGED <<args, runs, before, n_random, n_neighbor, verbose, printed>>

(* lines 153-169, one iteration *)
DoClimb ==
    /\ self.pc = "climbing"
    /\ self.i < Remaining(self)
    /\ \E nb \in _neighbor(self), draw \in {"low", "high"} :
         /\ self' = Climb(self, nb, draw)
         /\ Follow(Climb(fresh, nb, draw))
         /\ seen_max' = Max2(seen_max,
                             Max2(_objective(self, self.current_state[1]),
                                  _objective(self, nb)))
    /\ prev_best' = self.best_objective
    /\ before' = self.current_state
    /\ n_neighbor' = n_neighbor + 1
    /\ printed' = IF ShouldPrint(self, verbose)
                  THEN Append(printed, __str__([self EXCEPT !.cur_steps = self.cur_steps + 1]))
                  ELSE printed
    /\ UNCHANGED <<args, runs, paths, n_random, n_initial, verbose, seed_best>>

(* lines 170-171: the loop is over *)
DoReturnMaxSteps ==
    /\ self.pc = "climbing"
    /\ self.i >= Remaining(self)
    /\ self' = ReturnMaxSteps(self)
    /\ Follow(ReturnMaxSteps(fresh))
    /\ UNCHANGED <<args, runs, seen_max, prev_best, before, paths,
                   n_random, n_neighbor, n_initial, verbose, printed, seed_best>>

Next ==
    \/ DoConstruct
    \/ Run
    \/ DoSeedPoint
    \/ DoSeedSample
    \/ DoSeedInitial
    \/ DoClimb
    \/ DoReturnMaxSteps

Spec == Init /\ [][Next]_vars

(* the long runs *)
NextLong ==
    \/ DoConstructLong
    \/ Run
    \/ DoSeedPoint
    \/ DoSeedSample
    \/ DoSeedInitial
    \/ DoClimb
    \/ DoReturnMaxSteps

SpecLong == Init /\ [][NextLong]_vars

----------------------------------------------------------------------------
(* Properties *)

Constructed == self.pc \notin {"new", "failed"}
SeedingOver == self.pc \in {"climbing", "done", "raised"}
Budget == Max2(0, Remaining(self))

(* C1: when run() returns, the returned best state is an actual state and
   its objective equals the returned best objective. *)
C1_ReturnedBestMatchesObjective ==
    self.pc = "done" =>
        /\ self.result[1] # None
        /\ _objective(self, self.result[1][1]) = self.result[2]

(* C2: at the end of every seeding evaluation and of every climbing
   iteration, best_objective is the maximum objective over all states
   evaluated so far in the run, rejected neighbours included. *)
C2_BestIsMaxEvaluated ==
    self.pc \in {"seeding", "climbing", "done"} => self.best_objective = seen_max

(* C3: within one run, from the reset onward, every assignment to
   best_objective (the three seeding paths and the climbing phase) yields a
   value greater than or equal to the previous one. *)
C3_BestNeverDecreases ==
    runs >= 1 => prev_best <= self.best_objective

(* C3 witness: a climbing iteration has raised a best objective that the
   seeding phase had set. *)
C3_Witness ==
    /\ self.pc = "climbing"
    /\ self.i >= 1
    /\ prev_best > NegInf
    /\ prev_best < self.best_objective

(* C4: with a target configured, the run stops with the target-reached
   status as soon as a climbing iteration ends with a best objective greater
   than or equal to the target, and a run that reports target-reached returns
   best_objective >= max_objective. *)
C4_StopsOnceTargetFound ==
    /\ (self.pc = "climbing" /\ self.i >= 1 /\ self.max_objective # None)
          => self.best_objective < self.max_objective[1]
    /\ (self.pc = "done" /\ self.status = "target")
          => self.best_objective >= self.max_objective[1]

(* C5: a run that does not stop on the target performs exactly
   max(0, max_steps - n_samples - len(points_to_evaluate)) climbing
   iterations, calls _neighbor once per iteration, ends with cur_steps equal
   to that number and reports budget-exhausted; cur_steps never exceeds that
   number. *)
C5_BudgetRunUsesAllSteps ==
    /\ runs >= 1 => self.cur_steps <= Budget
    /\ runs >= 1 => n_neighbor = self.cur_steps
    /\ (self.pc \in {"done", "raised"} /\ self.status # "target") =>
          /\ self.status = "budget"
          /\ self.cur_steps = Budget

(* C6: in every run exactly one seeding path executes; with seed points
   _random is never called and the initial state is never evaluated as a
   seed; when sampling runs the seed-points list is empty and _random is
   called exactly n_samples times; _random is never called while climbing. *)
C6_OneSeedingPath ==
    /\ Cardinality(paths) <= 1
    /\ SeedingOver => Cardinality(paths) = 1
    /\ (Constructed /\ Len(self.points_to_evaluate) > 0) =>
          (n_random = 0 /\ n_initial = 0 /\ paths \subseteq {"points"})
    /\ "samples" \in paths => Len(self.points_to_evaluate) = 0
    /\ n_random > 0 => "samples" \in paths
    /\ SeedingOver =>
          n_random = IF "samples" \in paths THEN self.n_samples ELSE 0

(* C6 witness: a run that seeded by sampling has finished after climbing. *)
C6_Witness ==
    /\ self.pc = "done"
    /\ paths = {"samples"}
    /\ n_random = self.n_samples
    /\ self.cur_steps >= 1

(* C7: for every constructed engine, a climbing iteration whose neighbour has
   an objective at least that of the current state accepts it: the iteration
   ends with current_state replaced by that neighbour. *)
C7_BetterNeighborAccepted ==
    (/\ SeedingOver
     /\ self.neighbor # None
     /\ _objective(self, before[1]) <= _objective(self, self.neighbor[1]))
    => (self.pc # "raised" /\ self.current_state = self.neighbor)

(* C8: for every configuration construction accepts, run() never ends in an
   error: it always returns a result pair. *)
C8_RunNeverRaises ==
    /\ self.pc # "raised"
    /\ self.pc = "done" => self.result # None

(* what C9 says construction rejects *)
C9_Rejected(a) ==
    \/ ~(IsInt(a.max_steps) /\ a.max_steps.v > 0)
    \/ ~(IsNumeric(a.temp) /\ a.temp.v > 0)
    \/ (a.max_objective.ty # "none" /\ ~IsNumeric(a.max_objective))

(* C9: construction fails with a configuration error when max steps is not a
   positive integer, when temperature is not a real number greater than 0, or
   when max objective is present but not numeric; every constructed engine
   has temperature > 0 and max_steps >= 1. *)
C9_ConstructionValidates ==
    /\ self.pc # "new" => ((self.pc = "failed") <=> C9_Rejected(args))
    /\ Constructed => (self.temp > 0 /\ self.max_steps >= 1)

(* C10: run() on an engine that has already run goes through the same
   states (attributes, position, result, status, error) as run() on an engine
   freshly constructed from the same arguments, given the same Problem Model
   results and random draws. *)
C10_RerunLikeFresh ==
    runs >= 1 => self = fresh

(* C10 witness: a second run on the same engine has returned after climbing. *)
C10_Witness ==
    /\ runs = 2
    /\ self.pc = "done"
    /\ self.cur_steps >= 1
    /\ self.best_state # None

(* C11: with verbose set, a progress report is printed at exactly the
   climbing steps whose step count is a multiple of 100, each carrying that
   step count with the best objective and best state found so far (those at
   the start of the reporting iteration); with verbose unset none is
   printed. *)
C11_ProgressEveryHundredSteps ==
    runs >= 1 =>
        /\ ~verbose => printed = <<>>
        /\ verbose => Len(printed) = self.cur_steps \div ProgressEvery
        /\ \A j \in 1..Len(printed) :
              /\ printed[j].cur_steps = ProgressEvery * j
              /\ printed[j].best_objective <= self.best_objective
              /\ printed[j].best_state # None =>
                    _objective(self, printed[j].best_state[1]) = printed[j].best_objective
        /\ (verbose /\ self.cur_steps > 0 /\ self.cur_steps % ProgressEvery = 0) =>
              printed[Len(printed)].best_objective = prev_best

(* C11 witness: a verbose run has ended with the reports of steps 100 and
   200 printed. *)
C11_Witness ==
    /\ verbose
    /\ self.pc = "done"
    /\ Len(printed) = 2
    /\ printed[2].cur_steps = 2 * ProgressEvery

(* a call of run() goes on to its next statement: the steps of run() are
   taken while they are possible *)
RunStep ==
    DoSeedPoint \/ DoSeedSample \/ DoSeedInitial \/ DoClimb \/ DoReturnMaxSteps

(* where the call of run() stands; every step of run() changes it *)
position == <<self.pc, self.n, self.k, self.i>>

(* run() has just been called on a newly constructed engine *)
InitRun ==
    /\ \E a \in Args :
         /\ Construct(a).pc = "idle"
         /\ self = Start(Construct(a))
         /\ fresh = Start(Construct(a))
         /\ args = a
    /\ runs = 1
    /\ seen_max = NegInf
    /\ prev_best = NegInf
    /\ before = None
    /\ paths = {}
    /\ n_random = 0
    /\ n_neighbor = 0
    /\ n_initial = 0
    /\ verbose \in BOOLEAN
    /\ printed = <<>>
    /\ seed_best = NegInf

FairSpec == InitRun /\ [][Next]_vars /\ WF_position(RunStep)

(* C12, termination alone: a call of run() in progress comes to an end, by a
   return or by an exception. *)
C12_RunEnds ==
    (self.pc \in {"seeding", "climbing"}) ~> (self.pc \in {"done", "raised"})

(* C12: every run ends, and it ends by exactly one of the two terminal
   conditions: target reached (line 167 holds) or step budget exhausted (the
   loop of line 153 is over). *)
C12_EndsByTargetOrBudget ==
    (runs >= 1 /\ self.pc \notin {"seeding", "climbing"}) =>
        /\ self.pc = "done"
        /\ self.status \in {"target", "budget"}
        /\ self.status = "target" => TargetReached(self)
        /\ self.status = "budget" => self.i >= Remaining(self)

(* the latest climbing iteration computed exp() of an argument that
   overflows *)
LastTestOverflowed ==
    /\ SeedingOver
    /\ self.neighbor # None
    /\ self.temp # 0
    /\ ExpOverflows(_objective(self, self.neighbor[1]) - _objective(self, before[1]),
                    self.temp)

(* C13: when the computation of the acceptance probability overflows, the
   acceptance test accepts (the neighbour becomes current_state) and the run
   goes on; the overflow does not leave run() as an error. *)
C13_OverflowAccepts ==
    LastTestOverflowed =>
        /\ self.pc # "raised"
        /\ self.error = "none"
        /\ self.current_state = self.neighbor

(* C13 witness: an iteration whose test overflowed has ended and the run
   goes on with the neighbour as current state. *)
C13_Witness ==
    /\ LastTestOverflowed
    /\ self.pc = "climbing"
    /\ self.i < Remaining(self)
    /\ self.current_state = self.neighbor

(* a climbing iteration has just ended without raising *)
IterationEnded ==
    /\ self.pc \in {"climbing", "done"}
    /\ self.neighbor # None

(* C14 as stated: while best_objective < 0, a current state with objective
   in (best_objective, 0) does not update best_objective. *)
C14_NegativeBestNotImproved ==
    (/\ IterationEnded
     /\ prev_best < 0
     /\ prev_best < _objective(self, self.current_state[1])
     /\ _objective(self, self.current_state[1]) < 0)
    => self.best_objective = prev_best

(* C14 amended: `best_objective or 0` is best_objective itself for every
   number (only 0 is falsy, and it falls back to 0), so every climbing
   iteration whose current state has an objective strictly greater than
   best_objective records it, negative or not: best_objective becomes that
   objective and best_state that state. *)
C14_ClimbRecordsEveryImprovement ==
    IterationEnded =>
        /\ self.best_objective = Max2(prev_best, _objective(self, self.current_state[1]))
        /\ _objective(self, self.current_state[1]) > prev_best =>
              self.best_state = self.current_state

(* C14 witness: a negative best objective has been improved by a current
   state whose objective is still negative. *)
C14_Witness ==
    /\ IterationEnded
    /\ prev_best < 0
    /\ prev_best < _objective(self, self.current_state[1])
    /\ _objective(self, self.current_state[1]) < 0
    /\ self.best_objective = _objective(self, self.current_state[1])
    /\ self.best_state = self.current_state

(* C15: whenever a state is recorded as best, in the seed-points path, the
   sampling path and the climbing phase alike, best_state is an independent
   copy: it is not the object current_state refers to, nor the caller's seed
   point. *)
C15_BestIsIndependentCopy ==
    (runs >= 1 /\ self.best_state # None) =>
        (~self.best_is_current /\ ~self.best_is_callers)

(* C16: for an engine with temperature > 0, at the end of the seeding phase
   and at the end of every climbing iteration the objective of current_state
   is at most best_objective. *)
C16_CurrentNeverAboveBest ==
    (Constructed /\ self.temp > 0 /\ self.pc \in {"climbing", "done"}) =>
        _objective(self, self.current_state[1]) <= self.best_objective

(* C16 witness: a climbing iteration of an engine with temperature > 0 has
   ended on a current state strictly worse than the best (a worse neighbour
   was accepted). *)
C16_Witness ==
    /\ IterationEnded
    /\ self.temp > 0
    /\ self.current_state = self.neighbor
    /\ _objective(self, self.current_state[1]) < self.best_objective

(* the seeding phase alone left a best objective above the target *)
SeedsExceedTarget ==
    /\ SeedingOver
    /\ self.max_objective # None
    /\ seed_best > self.max_objective[1]

(* C17: the target is tested only at the end of a climbing iteration.  A run
   with max_steps - n_samples - len(points_to_evaluate) <= 0 proposes no
   neighbour and reports budget-exhausted, even when a seed exceeds the
   target; when the seeds exceed the target and an iteration remains, nothing
   is reported before a neighbour is proposed, exactly one neighbour is
   proposed and tested, and what the run reports is target-reached. *)
C17_TargetTestedAfterIteration ==
    /\ (runs >= 1 /\ Remaining(self) <= 0) =>
          /\ n_neighbor = 0
          /\ self.status # "target"
          /\ self.pc = "done" => self.status = "budget"
    /\ (SeedsExceedTarget /\ Remaining(self) >= 1) =>
          /\ n_neighbor = 0 => (self.pc = "climbing" /\ self.status = "none")
          /\ n_neighbor <= 1
          /\ n_neighbor = 1 => (self.pc \in {"done", "raised"} /\ self.neighbor # None)
          /\ self.pc = "done" => self.status = "target"

(* C17 witness: the seeds exceeded the target and the run has reported
   target-reached after one neighbour. *)
C17_Witness ==
    /\ SeedsExceedTarget
    /\ self.pc = "done"
    /\ self.status = "target"
    /\ n_neighbor = 1
    /\ self.cur_steps = 1

(* C17, the other case: a run without climbing iterations has reported
   budget-exhausted although its seeds exceed the target. *)
C17_WitnessNoIteration ==
    /\ SeedsExceedTarget
    /\ Remaining(self) <= 0
    /\ self.pc = "done"
    /\ self.status = "budget"

====
